---- MODULE Spec2Model ----
(***************************************************************************)
(* watchtower.CloudWatchLogHandler: per-stream queues, the batch_sender    *)
(* worker threads, _submit_batch with its sequence-token retry loop, emit  *)
(* and flush.  Threads interleave between the steps modelled as actions.   *)
(***************************************************************************)
EXTENDS Integers, Sequences, FiniteSets, TLC

\* ---------------------------------------------------------------- bounds
MaxEvents == 3      \* log records handed to emit by a single producer
MaxRaceEvents == 2  \* log records handed to emit by racing producers
MaxTime == 2        \* last value of the discrete clock time.time()
MaxFlushes == 2     \* calls of flush()

\* ------------------------------------------------- handler configuration
send_interval == 1
max_batch_size == 100
max_batch_count == 2
max_retries == 5
Overhead == 26

\* ------------------------------------------------------------ input sets
Streams == {"s1", "s2"}             \* message.name values
Producers == {"p1", "p2"}           \* threads calling emit
Timestamps == {1, 2}                \* int(message.created * 1000)
PayloadLens == {4, 50, 80}          \* len(self.format(message))
Tokens == {"t1", "t2"}              \* sequence tokens the service hands out

\* A batch_sender thread and a Queue object are named after the emit call
\* that created them: <<stream, producer>>.  <<"emit", p>> is the thread of
\* producer p itself (it runs _submit_batch when use_queues is false).
Workers == Streams \X Producers
QueueIds == Streams \X Producers
EmitThreads == {"emit"} \X Producers
Threads == Workers \cup EmitThreads
NoQueue == <<"none", "none">>

Absent == "absent"                  \* key not in self.sequence_tokens
NoToken == "None"                   \* self.sequence_tokens[s] is None

None == [id |-> 0, timestamp |-> 0, len |-> 0]
END == [id |-> -1, timestamp |-> 0, len |-> 0]
Event(i, ts, l) == [id |-> i, timestamp |-> ts, len |-> l]
IsEvent(m) == m.id > 0

VARIABLES
    use_queues,            \* self.use_queues
    sequence_tokens,       \* self.sequence_tokens
    queues,                \* self.queues: stream name -> Queue object
    shutting_down,         \* self.shutting_down
    items,                 \* Queue.queue of every Queue object
    unfinished,            \* Queue.unfinished_tasks of every Queue object
    now,                   \* time.time()
    ppc, pstream, pmsg,    \* emit: position, stream_name, msg of each producer
    wpc, my_queue, msg,    \* batch_sender: position, my_queue, msg
    cur_batch, cur_batch_size, cur_batch_msg_count, cur_batch_deadline,
    kwargs, retry,         \* _submit_batch: kwargs and loop index, per thread
    fpc, fiter,            \* flush: position, queues left in the running loop
    flushes,               \* flush() calls begun so far
    nextId,                \* records created so far + 1
    enqueued,              \* history: per stream, the put() calls in order
    dequeued,              \* history: per worker, the events get() returned
    passed,                \* history: per worker, batches given to _submit_batch
    submitted,             \* history: per stream, first put_log_events calls
    lastCall,              \* history: per thread, the last put_log_events call
    faulted,               \* history: some remote call was not accepted
    fatalAt,               \* history: per stream, puts made before a worker died
    preFlush,              \* history: ids enqueued when flush() began
    discarded,             \* history: ids dropped with a PyCWLWarning
    late,                  \* history: ids whose emit began while shutting down
    waiting                \* history of a run that measures waiting: the events
                           \* put and not yet passed on, with the time of the put
                           \* and whether a worker of the queue was running

handlerVars == <<use_queues, sequence_tokens, queues, shutting_down>>
queueVars == <<items, unfinished>>
emitVars == <<ppc, pstream, pmsg, nextId>>
workerVars == <<wpc, my_queue, msg, cur_batch, cur_batch_size,
                cur_batch_msg_count, cur_batch_deadline>>
submitVars == <<kwargs, retry>>
flushVars == <<fpc, fiter, flushes, preFlush>>
histVars == <<enqueued, dequeued, passed, submitted, lastCall, faulted,
              fatalAt, discarded, late, waiting>>
vars == <<handlerVars, queueVars, now, emitVars, workerVars, submitVars,
          flushVars, histVars>>

\* --------------------------------------------------------------- helpers
RECURSIVE Flatten(_)
Flatten(ss) == IF ss = <<>> THEN <<>> ELSE Head(ss) \o Flatten(Tail(ss))

RECURSIVE SumSize(_)
size(m) == m.len + Overhead
SumSize(b) == IF b = <<>> THEN 0 ELSE size(Head(b)) + SumSize(Tail(b))

RECURSIVE InsertByTsUnstable(_, _)
InsertByTsUnstable(sorted, m) ==
    IF sorted = <<>> THEN <<m>>
    ELSE IF Head(sorted).timestamp < m.timestamp
         THEN <<Head(sorted)>> \o InsertByTsUnstable(Tail(sorted), m)
         ELSE <<m>> \o sorted

\* sorted(batch, key=itemgetter('timestamp')): stable insertion by timestamp
RECURSIVE InsertByTs(_, _)
InsertByTs(sorted, m) ==
    IF sorted = <<>> THEN <<m>>
    ELSE IF Head(sorted).timestamp <= m.timestamp
         THEN <<Head(sorted)>> \o InsertByTs(Tail(sorted), m)
         ELSE <<m>> \o sorted

RECURSIVE SortFrom(_, _)
SortFrom(acc, b) ==
    IF b = <<>> THEN acc ELSE SortFrom(InsertByTs(acc, Head(b)), Tail(b))

SortByTimestamp(batch) == SortFrom(<<>>, batch)

NoCall == [logEvents |-> <<>>, sequenceToken |-> NoToken,
           outcome |-> "none", token |-> NoToken]
NoKwargs == [logEvents |-> <<>>, sequenceToken |-> NoToken]

Init ==
    /\ use_queues \in BOOLEAN
    /\ sequence_tokens = [s \in Streams |-> Absent]
    /\ queues = [s \in Streams |-> NoQueue]
    /\ shutting_down = FALSE
    /\ items = [q \in QueueIds |-> <<>>]
    /\ unfinished = [q \in QueueIds |-> 0]
    /\ now = 0
    /\ ppc = [p \in Producers |-> "idle"]
    /\ pstream = [p \in Producers |-> "s1"]
    /\ pmsg = [p \in Producers |-> None]
    /\ wpc = [w \in Workers |-> "unborn"]
    /\ my_queue = [w \in Workers |-> NoQueue]
    /\ msg = [w \in Workers |-> None]
    /\ cur_batch = [w \in Workers |-> <<>>]
    /\ cur_batch_size = [w \in Workers |-> 0]
    /\ cur_batch_msg_count = [w \in Workers |-> 0]
    /\ cur_batch_deadline = [w \in Workers |-> 0]
    /\ kwargs = [t \in Threads |-> NoKwargs]
    /\ retry = [t \in Threads |-> 0]
    /\ fpc = "idle"
    /\ fiter = {}
    /\ flushes = 0
    /\ nextId = 1
    /\ enqueued = [s \in Streams |-> <<>>]
    /\ dequeued = [w \in Workers |-> <<>>]
    /\ passed = [w \in Workers |-> <<>>]
    /\ submitted = [s \in Streams |-> <<>>]
    /\ lastCall = [t \in Threads |-> NoCall]
    /\ faulted = FALSE
    /\ fatalAt = [s \in Streams |-> -1]
    /\ preFlush = {}
    /\ discarded = {}
    /\ late = {}
    /\ waiting = {}

\* -------------------------------------------------------- batch_sender
NewBatchDropsCarried(m) == <<>>

\* Line 143: the batch a pass of the outer loop starts with.
NewBatch(m) == IF m = None THEN <<>> ELSE <<m>>

TimeoutKeepsMsg(previous) == previous

\* Lines 150-152: what msg becomes when get() raises Queue.Empty.
TimeoutMsg(previous) == None

FlushTriggerSizeBeforeAdd(m, batch_size, msg_count, deadline, t) ==
    \/ m = None
    \/ m = END
    \/ batch_size > max_batch_size
    \/ msg_count >= max_batch_count
    \/ t >= deadline

FlushTriggerCountOffByOne(m, batch_size, msg_count, deadline, t) ==
    \/ m = None
    \/ m = END
    \/ batch_size + size(m) > max_batch_size
    \/ msg_count > max_batch_count
    \/ t >= deadline

\* Lines 153-157: the received item closes the current batch.
FlushTrigger(m, batch_size, msg_count, deadline, t) ==
    \/ m = None
    \/ m = END
    \/ batch_size + size(m) > max_batch_size
    \/ msg_count >= max_batch_count
    \/ t >= deadline

batchVars == <<cur_batch, cur_batch_size, cur_batch_msg_count,
               cur_batch_deadline>>

\* Lines 142-146: the outer loop's test and the start of a new batch, for a
\* thread whose msg is m.
LoopTop(w, m) ==
    IF m = END
    THEN /\ wpc' = [wpc EXCEPT ![w] = "done"]
         /\ UNCHANGED batchVars
    ELSE /\ wpc' = [wpc EXCEPT ![w] = "get"]
         /\ cur_batch' = [cur_batch EXCEPT ![w] = NewBatch(m)]
         /\ cur_batch_size' = [cur_batch_size EXCEPT
                                 ![w] = SumSize(NewBatch(m))]
         /\ cur_batch_msg_count' = [cur_batch_msg_count EXCEPT
                                      ![w] = Len(NewBatch(m))]
         /\ cur_batch_deadline' = [cur_batch_deadline EXCEPT
                                     ![w] = now + send_interval]

\* ------------------------------------------------------- _submit_batch
\* Lines 84-88: the sorted batch and, when the stream has one, its token.
BuildKwargs(batch, tok) ==
    [logEvents |-> SortByTimestamp(batch), sequenceToken |-> tok]

ReturnsAtOnceNever(batch) == FALSE

\* Lines 82-83: _submit_batch returns at once for an empty batch.
ReturnsAtOnce(batch) == Len(batch) < 1

\* The thread is inside the retry loop, about to call put_log_events.
Calling(t) ==
    IF t \in Workers THEN wpc[t] = "put_log_events"
    ELSE ppc[t[2]] = "put_log_events"

CallStream(t) == IF t \in Workers THEN t[1] ELSE pstream[t[2]]

\* Lines 159-162 after _submit_batch returned to batch_sender: task_done for
\* a received item m, break, and the next pass of the outer loop.
AfterSubmit(w, m) ==
    /\ unfinished' = [unfinished EXCEPT
                        ![my_queue[w]] = IF m # None THEN @ - 1 ELSE @]
    /\ LoopTop(w, m)

\* _submit_batch returns normally to its caller.
Returned(t) ==
    IF t \in Workers
    THEN /\ AfterSubmit(t, msg[t])
         /\ UNCHANGED <<ppc, items, fatalAt>>
    ELSE /\ ppc' = [ppc EXCEPT ![t[2]] = "idle"]
         /\ UNCHANGED <<wpc, items, unfinished, batchVars, fatalAt>>

RaisedEndsEveryWorker(t) ==
    IF t \in Workers
    THEN /\ wpc' = [w \in Workers |->
                      IF wpc[w] = "unborn" THEN "unborn" ELSE "crashed"]
         /\ fatalAt' = [fatalAt EXCEPT
                          ![t[1]] = IF @ < 0 THEN Len(enqueued[t[1]]) ELSE @]
         /\ UNCHANGED <<ppc, items, unfinished, batchVars>>
    ELSE /\ ppc' = [ppc EXCEPT ![t[2]] = "idle"]
         /\ UNCHANGED <<wpc, items, unfinished, batchVars, fatalAt>>

\* _submit_batch raises: batch_sender's except clause (lines 168-170) ends the
\* thread; in emit the exception leaves the call.
Raised(t) ==
    IF t \in Workers
    THEN /\ wpc' = [wpc EXCEPT ![t] = "crashed"]
         /\ fatalAt' = [fatalAt EXCEPT
                          ![t[1]] = IF @ < 0 THEN Len(enqueued[t[1]]) ELSE @]
         /\ UNCHANGED <<ppc, items, unfinished, batchVars>>
    ELSE /\ ppc' = [ppc EXCEPT ![t[2]] = "idle"]
         /\ UNCHANGED <<wpc, items, unfinished, batchVars, fatalAt>>

\* History of one put_log_events call by thread t.
Record(t, outcome, tok) ==
    /\ lastCall' = [lastCall EXCEPT ![t] =
                      [logEvents |-> kwargs[t].logEvents,
                       sequenceToken |-> kwargs[t].sequenceToken,
                       outcome |-> outcome, token |-> tok]]
    /\ submitted' = IF retry[t] = 0
                    THEN [submitted EXCEPT ![CallStream(t)] =
                            Append(@, [by |-> t, logEvents |-> kwargs[t].logEvents])]
                    ELSE submitted
    /\ faulted' = (faulted \/ outcome # "accepted")

PutFrame ==
    UNCHANGED <<handlerVars, now, pstream, pmsg, nextId, my_queue, msg,
                flushVars, enqueued, dequeued, passed, discarded, late,
                waiting>>

\* Line 92-93: the call is accepted; line 101 finds no rejectedLogEventsInfo.
PutAccepted(t, tok) ==
    /\ Calling(t)
    /\ Record(t, "accepted", tok)
    /\ Returned(t)
    /\ UNCHANGED <<kwargs, retry>>
    /\ PutFrame

\* Lines 92-93, 101-103: accepted, but the response lists rejected events.
PutRejectedEvents(t, tok) ==
    /\ Calling(t)
    /\ Record(t, "rejectedLogEventsInfo", tok)
    /\ Raised(t)
    /\ UNCHANGED <<kwargs, retry>>
    /\ PutFrame

RetryTokenKeepsOld(old, corrected) == old

\* The token a retry carries after a stale-token rejection (line 97).
RetryToken(old, corrected) == corrected

HasNextAttemptOffByOne(r) == r + 1 <= max_retries

\* range(max_retries) has another index after index r.
HasNextAttempt(r) == r + 1 < max_retries

\* Lines 94-97: DataAlreadyAcceptedException / InvalidSequenceTokenException
\* whose message ends in the token the service expects.  When the loop runs
\* out, line 101 reads the unbound local `response` and raises.
PutStaleToken(t, corrected) ==
    /\ Calling(t)
    /\ Record(t, "stale", corrected)
    /\ kwargs' = [kwargs EXCEPT ![t].sequenceToken =
                     RetryToken(@, corrected)]
    /\ IF HasNextAttempt(retry[t])
       THEN /\ retry' = [retry EXCEPT ![t] = @ + 1]
            /\ UNCHANGED <<ppc, wpc, items, unfinished, batchVars, fatalAt>>
       ELSE /\ Raised(t)
            /\ UNCHANGED retry
    /\ PutFrame

\* Lines 98-99: any other ClientError is re-raised.
PutOtherError(t) ==
    /\ Calling(t)
    /\ Record(t, "error", NoToken)
    /\ Raised(t)
    /\ UNCHANGED <<kwargs, retry>>
    /\ PutFrame

\* ---------------------------------------------------------------- emit
\* Lines 106-118 and, without queues, the start of _submit_batch([msg]).
EmitBegin(p, s, ts, l, n) ==
    /\ ppc[p] = "idle"
    /\ nextId <= n
    /\ LET m == Event(nextId, ts, l) IN
       /\ pmsg' = [pmsg EXCEPT ![p] = m]
       /\ pstream' = [pstream EXCEPT ![p] = s]
       /\ nextId' = nextId + 1
       /\ sequence_tokens' = [sequence_tokens EXCEPT
                                ![s] = IF @ = Absent THEN NoToken ELSE @]
       /\ IF use_queues
          THEN /\ ppc' = [ppc EXCEPT ![p] =
                            IF queues[s] = NoQueue THEN "new_queue"
                            ELSE "check_shutdown"]
               /\ UNCHANGED <<kwargs, retry>>
          ELSE /\ ppc' = [ppc EXCEPT ![p] = "put_log_events"]
               /\ kwargs' = [kwargs EXCEPT ![<<"emit", p>>] =
                               BuildKwargs(<<m>>, sequence_tokens'[s])]
               /\ retry' = [retry EXCEPT ![<<"emit", p>>] = 0]
    /\ late' = IF shutting_down THEN late \cup {nextId} ELSE late
    /\ UNCHANGED <<use_queues, queues, shutting_down, queueVars, now,
                   workerVars, flushVars, enqueued, dequeued, passed,
                   submitted, lastCall, faulted, fatalAt, discarded, waiting>>

\* Lines 109-111: create_log_stream fails with an error other than
\* ResourceAlreadyExistsException; _idempotent_create re-raises it.
EmitCreateStreamError(p, s, n) ==
    /\ ppc[p] = "idle"
    /\ nextId <= n
    /\ sequence_tokens[s] = Absent
    /\ faulted' = TRUE
    /\ UNCHANGED <<handlerVars, queueVars, now, emitVars, workerVars,
                   submitVars, flushVars, enqueued, dequeued, passed,
                   submitted, lastCall, fatalAt, discarded, late, waiting>>

\* Line 119: self.queues[stream_name] = Queue.Queue()
EmitNewQueue(p) ==
    /\ ppc[p] = "new_queue"
    /\ queues' = [queues EXCEPT ![pstream[p]] = <<pstream[p], p>>]
    /\ ppc' = [ppc EXCEPT ![p] = "start_thread"]
    /\ UNCHANGED <<use_queues, sequence_tokens, shutting_down, queueVars, now,
                   pstream, pmsg, nextId, workerVars, submitVars, flushVars,
                   histVars>>

\* Lines 120-125: the thread is given the queue self.queues holds now, and
\* started; lines 136-146 set its msg to None and start its first batch.
EmitStartThread(p) ==
    /\ ppc[p] = "start_thread"
    /\ LET w == <<pstream[p], p>> IN
       /\ my_queue' = [my_queue EXCEPT ![w] = queues[pstream[p]]]
       /\ msg' = [msg EXCEPT ![w] = None]
       /\ LoopTop(w, None)
    /\ ppc' = [ppc EXCEPT ![p] = "check_shutdown"]
    /\ UNCHANGED <<handlerVars, queueVars, now, pstream, pmsg, nextId,
                   submitVars, flushVars, histVars>>

EmitCheckShutdownIgnored(p) ==
    /\ ppc[p] = "check_shutdown"
    /\ ppc' = [ppc EXCEPT ![p] = "put"]
    /\ UNCHANGED <<handlerVars, queueVars, now, pstream, pmsg, nextId,
                   workerVars, submitVars, flushVars, histVars>>

\* Lines 126-128: the shutting_down test, and the warning.
EmitCheckShutdown(p) ==
    /\ ppc[p] = "check_shutdown"
    /\ IF shutting_down
       THEN /\ ppc' = [ppc EXCEPT ![p] = "idle"]
            /\ discarded' = discarded \cup {pmsg[p].id}
       ELSE /\ ppc' = [ppc EXCEPT ![p] = "put"]
            /\ UNCHANGED discarded
    /\ UNCHANGED <<handlerVars, queueVars, now, pstream, pmsg, nextId,
                   workerVars, submitVars, flushVars, enqueued, dequeued,
                   passed, submitted, lastCall, faulted, fatalAt, late,
                   waiting>>

\* Line 129: self.queues[stream_name].put(msg).  A run that measures how
\* long events wait (noted) keeps the time of the put in waiting.
EmitPutNoting(p, noted) ==
    /\ ppc[p] = "put"
    /\ LET q == queues[pstream[p]] IN
       /\ items' = [items EXCEPT ![q] = Append(@, pmsg[p])]
       /\ unfinished' = [unfinished EXCEPT ![q] = @ + 1]
       /\ enqueued' = [enqueued EXCEPT ![pstream[p]] =
                         Append(@, [queue |-> q, msg |-> pmsg[p]])]
       /\ waiting' = IF noted
                      THEN waiting \cup
                             {[id |-> pmsg[p].id, at |-> now,
                               running |-> \E w \in Workers :
                                   /\ my_queue[w] = q
                                   /\ wpc[w] \in {"get", "put_log_events"}]}
                      ELSE waiting
    /\ ppc' = [ppc EXCEPT ![p] = "idle"]
    /\ UNCHANGED <<handlerVars, now, pstream, pmsg, nextId, workerVars,
                   submitVars, flushVars, dequeued, passed, submitted,
                   lastCall, faulted, fatalAt, discarded, late>>

EmitPut(p) == EmitPutNoting(p, FALSE)

EmitPutTimed(p) == EmitPutNoting(p, TRUE)

\* ------------------------------------------- batch_sender, inner loop
\* Lines 153-167 for the item m that line 149-152 left in msg.
Process(w, m) ==
    /\ msg' = [msg EXCEPT ![w] = m]
    /\ IF FlushTrigger(m, cur_batch_size[w], cur_batch_msg_count[w],
                       cur_batch_deadline[w], now)
       THEN /\ passed' = [passed EXCEPT ![w] = Append(@, cur_batch[w])]
            /\ waiting' = {r \in waiting :
                              \A i \in 1..Len(cur_batch[w]) :
                                  cur_batch[w][i].id # r.id}
            /\ IF ReturnsAtOnce(cur_batch[w])
               THEN /\ AfterSubmit(w, m)
                    /\ UNCHANGED <<kwargs, retry>>
               ELSE /\ kwargs' = [kwargs EXCEPT ![w] =
                                    BuildKwargs(cur_batch[w],
                                                sequence_tokens[w[1]])]
                    /\ retry' = [retry EXCEPT ![w] = 0]
                    /\ wpc' = [wpc EXCEPT ![w] = "put_log_events"]
                    /\ UNCHANGED <<unfinished, batchVars>>
       ELSE /\ cur_batch_size' = [cur_batch_size EXCEPT ![w] = @ + size(m)]
            /\ cur_batch_msg_count' = [cur_batch_msg_count EXCEPT ![w] = @ + 1]
            /\ cur_batch' = [cur_batch EXCEPT ![w] = Append(@, m)]
            /\ unfinished' = [unfinished EXCEPT ![my_queue[w]] = @ - 1]
            /\ UNCHANGED <<wpc, kwargs, retry, passed, cur_batch_deadline,
                           waiting>>
    /\ UNCHANGED <<handlerVars, now, emitVars, my_queue, flushVars, enqueued,
                   submitted, lastCall, faulted, fatalAt, discarded, late>>

\* Line 149: get() returns the head of the queue.
WorkerGet(w) ==
    /\ wpc[w] = "get"
    /\ items[my_queue[w]] # <<>>
    /\ LET m == Head(items[my_queue[w]]) IN
       /\ items' = [items EXCEPT ![my_queue[w]] = Tail(@)]
       /\ dequeued' = [dequeued EXCEPT
                         ![w] = IF IsEvent(m) THEN Append(@, m) ELSE @]
       /\ Process(w, m)

\* Lines 149-152: the queue stayed empty until the deadline; Queue.Empty.
WorkerTimeout(w) ==
    /\ wpc[w] = "get"
    /\ items[my_queue[w]] = <<>>
    /\ now >= cur_batch_deadline[w]
    /\ UNCHANGED <<items, dequeued>>
    /\ Process(w, TimeoutMsg(msg[w]))

\* ---------------------------------------------------------------- flush
\* The Queue objects self.queues.values() yields.
QueueValues == {queues[s] : s \in Streams} \ {NoQueue}

AllEnqueuedIds ==
    UNION {{enqueued[s][i].msg.id : i \in 1..Len(enqueued[s])} : s \in Streams}

\* Line 173, and line 174 taking self.queues.values(): each loop of flush
\* walks the Queue objects self.queues held when the loop began.
FlushBegin ==
    /\ fpc = "idle"
    /\ shutting_down' = TRUE
    /\ fpc' = "put_end"
    /\ fiter' = QueueValues
    /\ flushes' = flushes + 1
    /\ preFlush' = AllEnqueuedIds
    /\ UNCHANGED <<use_queues, sequence_tokens, queues, queueVars, now,
                   emitVars, workerVars, submitVars, histVars>>

\* Line 175: q.put(self.END) for the next queue of the first loop.
FlushPutEnd(q) ==
    /\ fpc = "put_end"
    /\ q \in fiter
    /\ items' = [items EXCEPT ![q] = Append(@, END)]
    /\ unfinished' = [unfinished EXCEPT ![q] = @ + 1]
    /\ fiter' = fiter \ {q}
    /\ UNCHANGED <<handlerVars, now, emitVars, workerVars, submitVars, fpc,
                   flushes, preFlush, histVars>>

\* Line 176: the first loop is over; the second takes self.queues.values().
FlushJoinAll ==
    /\ fpc = "put_end"
    /\ fiter = {}
    /\ fpc' = "join"
    /\ fiter' = QueueValues
    /\ UNCHANGED <<handlerVars, queueVars, now, emitVars, workerVars,
                   submitVars, flushes, preFlush, histVars>>

\* Line 177: q.join() returns once the queue has no unfinished task.
FlushJoin(q) ==
    /\ fpc = "join"
    /\ q \in fiter
    /\ unfinished[q] = 0
    /\ fiter' = fiter \ {q}
    /\ UNCHANGED <<handlerVars, queueVars, now, emitVars, workerVars,
                   submitVars, fpc, flushes, preFlush, histVars>>

\* flush() returns.
FlushReturn ==
    /\ fpc = "join"
    /\ fiter = {}
    /\ fpc' = "returned"
    /\ UNCHANGED <<handlerVars, queueVars, now, emitVars, workerVars,
                   submitVars, fiter, flushes, preFlush, histVars>>

\* flush() is called again after an earlier call returned: lines 173-174.
FlushAgain ==
    /\ fpc = "returned"
    /\ flushes < MaxFlushes
    /\ shutting_down' = TRUE
    /\ fpc' = "put_end"
    /\ fiter' = QueueValues
    /\ flushes' = flushes + 1
    /\ UNCHANGED <<use_queues, sequence_tokens, queues, queueVars, now,
                   emitVars, workerVars, submitVars, preFlush, histVars>>

\* ---------------------------------------------------------------- clock
\* time.time() is read by batch_sender alone (lines 146, 149, 157): the
\* clock advances while some thread has a batch open.
Tick ==
    /\ now < MaxTime
    /\ \E w \in Workers : wpc[w] = "get"
    /\ now' = now + 1
    /\ UNCHANGED <<handlerVars, queueVars, emitVars, workerVars, submitVars,
                   flushVars, histVars>>

\* A batch_sender thread that has a step to take without time passing: a
\* remote call to finish, an item to get, or a deadline that has come.
WorkerReady(w) ==
    \/ wpc[w] = "put_log_events"
    \/ /\ wpc[w] = "get"
       /\ items[my_queue[w]] # <<>> \/ now >= cur_batch_deadline[w]

\* The clock of a run in which remote calls and thread steps take no time:
\* it advances when no batch_sender thread has a step to take.
TickTimed ==
    /\ now < MaxTime
    /\ \A w \in Workers : ~WorkerReady(w)
    /\ now' = now + 1
    /\ UNCHANGED <<handlerVars, queueVars, emitVars, workerVars, submitVars,
                   flushVars, histVars>>

\* ------------------------------------------------------- specifications
\* The handler's steps for producers PS logging to streams SS at most n
\* records with timestamps TSS and payload lengths LS: first the steps
\* inside emit, batch_sender and flush.
Inside(PS) ==
    \/ \E p \in PS : EmitNewQueue(p)
    \/ \E p \in PS : EmitStartThread(p)
    \/ \E p \in PS : EmitCheckShutdown(p)
    \/ \E w \in Workers : WorkerGet(w)
    \/ \E w \in Workers : WorkerTimeout(w)
    \/ \E q \in QueueIds : FlushPutEnd(q)
    \/ FlushJoinAll
    \/ \E q \in QueueIds : FlushJoin(q)
    \/ FlushReturn

Inner(PS) ==
    \/ \E p \in PS : EmitPut(p)
    \/ Inside(PS)

\* The same steps in a run that measures how long events wait.
InnerTimed(PS) ==
    \/ \E p \in PS : EmitPutTimed(p)
    \/ Inside(PS)

\* The calls of emit and flush() made at any time, and the steps inside.
Steps(PS, SS, TSS, LS, n) ==
    \/ \E p \in PS, s \in SS, ts \in TSS, l \in LS : EmitBegin(p, s, ts, l, n)
    \/ FlushBegin
    \/ Inner(PS)

\* The same steps with a clock that runs freely.
Handler(PS, SS, TSS, LS, n) ==
    \/ \E p \in PS, s \in SS, ts \in TSS, l \in LS : EmitBegin(p, s, ts, l, n)
    \/ \E p \in PS : EmitNewQueue(p)
    \/ \E p \in PS : EmitStartThread(p)
    \/ \E p \in PS : EmitCheckShutdown(p)
    \/ \E p \in PS : EmitPut(p)
    \/ \E w \in Workers : WorkerGet(w)
    \/ \E w \in Workers : WorkerTimeout(w)
    \/ FlushBegin
    \/ \E q \in QueueIds : FlushPutEnd(q)
    \/ FlushJoinAll
    \/ \E q \in QueueIds : FlushJoin(q)
    \/ FlushReturn
    \/ Tick

InitQueued == Init /\ use_queues = TRUE

\* Two producers racing on one stream, one kind of record; the service
\* accepts a call or fails it with an error that is not a stale token.
Next ==
    \/ Handler(Producers, {"s1"}, {1}, {4}, MaxRaceEvents)
    \/ \E t \in Threads : PutAccepted(t, "t1")
    \/ \E t \in Threads : PutOtherError(t)

Spec == InitQueued /\ [][Next]_vars

\* One producer, one stream, records of every payload length; the service
\* accepts every call.
NextBatch ==
    \/ Handler({"p1"}, {"s1"}, {1}, PayloadLens, MaxEvents)
    \/ \E t \in Threads : PutAccepted(t, "t1")

SpecBatch == InitQueued /\ [][NextBatch]_vars

\* One producer, one stream, records of every timestamp; the service
\* accepts every call.
NextOrder ==
    \/ Handler({"p1"}, {"s1"}, Timestamps, {4}, MaxEvents)
    \/ \E t \in Threads : PutAccepted(t, "t1")

SpecOrder == InitQueued /\ [][NextOrder]_vars

\* One producer, one stream, queued or direct delivery; the service answers
\* a call in any of its ways.
NextSubmit ==
    \/ Handler({"p1"}, {"s1"}, {1}, {4}, MaxRaceEvents)
    \/ \E s \in {"s1"} : EmitCreateStreamError("p1", s, MaxRaceEvents)
    \/ \E t \in Threads, tok \in Tokens : PutAccepted(t, tok)
    \/ \E t \in Threads, tok \in Tokens : PutRejectedEvents(t, tok)
    \/ \E t \in Threads, tok \in Tokens : PutStaleToken(t, tok)
    \/ \E t \in Threads : PutOtherError(t)

SpecSubmit == Init /\ [][NextSubmit]_vars

\* One producer, one stream, records of every payload length; the service
\* accepts every call; remote calls and thread steps take no time.
NextTimed ==
    \/ \E l \in PayloadLens : EmitBegin("p1", "s1", 1, l, MaxEvents)
    \/ FlushBegin
    \/ InnerTimed({"p1"})
    \/ \E t \in Threads : PutAccepted(t, "t1")
    \/ TickTimed

SpecTimed == InitQueued /\ [][NextTimed]_vars

\* One producer logging to two streams, one kind of record; the service
\* accepts a call or fails it with an error that is not a stale token; remote
\* calls and thread steps take no time.
NextStreams ==
    \/ Steps({"p1"}, Streams, {1}, {4}, MaxRaceEvents)
    \/ TickTimed
    \/ \E t \in Threads : PutAccepted(t, "t1")
    \/ \E t \in Threads : PutOtherError(t)

SpecStreams == InitQueued /\ [][NextStreams]_vars

\* The calls of a run in which no emit call overlaps or follows flush():
\* no emit call begins once flush() has been called, and flush() is called
\* when no emit call is running.
QuietEmitBegin(p, s, ts, l, n) ==
    /\ fpc = "idle"
    /\ EmitBegin(p, s, ts, l, n)

QuietFlushBegin ==
    /\ \A p \in Producers : ppc[p] = "idle"
    /\ FlushBegin

\* Fair scheduling with a service that answers every call by accepting it:
\* a thread that can take a step takes one, be it a batch_sender thread,
\* the thread inside flush() or a thread inside emit.
FairThreads ==
    /\ \A w \in Workers :
           WF_vars(WorkerGet(w) \/ WorkerTimeout(w) \/ PutAccepted(w, "t1"))
    /\ WF_vars(\/ \E q \in QueueIds : FlushPutEnd(q)
               \/ FlushJoinAll
               \/ \E q \in QueueIds : FlushJoin(q)
               \/ FlushReturn)
    /\ \A p \in Producers :
           WF_vars(\/ EmitNewQueue(p)
                   \/ EmitStartThread(p)
                   \/ EmitCheckShutdown(p)
                   \/ EmitPut(p)
                   \/ EmitPutTimed(p))

\* The timed run of one producer, with flush() called after the emit calls.
NextQuiet ==
    \/ \E l \in PayloadLens : QuietEmitBegin("p1", "s1", 1, l, MaxEvents)
    \/ QuietFlushBegin
    \/ InnerTimed({"p1"})
    \/ \E t \in Threads : PutAccepted(t, "t1")
    \/ TickTimed

SpecQuiet == InitQueued /\ [][NextQuiet]_vars /\ FairThreads

\* Fair scheduling with a service that answers every call, by accepting
\* it or with an error that is not a stale token.
FairThreadsFaulty ==
    /\ \A w \in Workers :
           WF_vars(\/ WorkerGet(w)
                   \/ WorkerTimeout(w)
                   \/ PutAccepted(w, "t1")
                   \/ PutOtherError(w))
    /\ WF_vars(\/ \E q \in QueueIds : FlushPutEnd(q)
               \/ FlushJoinAll
               \/ \E q \in QueueIds : FlushJoin(q)
               \/ FlushReturn)
    /\ \A p \in Producers :
           WF_vars(\/ EmitNewQueue(p)
                   \/ EmitStartThread(p)
                   \/ EmitCheckShutdown(p)
                   \/ EmitPut(p)
                   \/ EmitPutTimed(p))

\* The timed run of one producer, with flush() called after the emit calls
\* and a service that may fail a call.
NextQuietFaulty ==
    \/ \E p \in {"p1"} : QuietEmitBegin(p, "s1", 1, 4, MaxEvents)
    \/ QuietFlushBegin
    \/ Inner({"p1"})
    \/ \E t \in Threads : PutAccepted(t, "t1")
    \/ \E t \in Threads : PutOtherError(t)
    \/ TickTimed

SpecQuietFaulty == InitQueued /\ [][NextQuietFaulty]_vars /\ FairThreadsFaulty

\* The timed run of one producer, with flush() called after the emit calls
\* and called again after it returned.
NextQuietAgain ==
    \/ \E p \in {"p1"} : QuietEmitBegin(p, "s1", 1, 4, MaxEvents)
    \/ QuietFlushBegin
    \/ FlushAgain
    \/ Inner({"p1"})
    \/ \E t \in Threads : PutAccepted(t, "t1")
    \/ TickTimed

SpecQuietAgain == InitQueued /\ [][NextQuietAgain]_vars /\ FairThreads

\* The same run with two producers racing on one stream.
NextQuietRace ==
    \/ \E p \in Producers : QuietEmitBegin(p, "s1", 1, 4, MaxRaceEvents)
    \/ QuietFlushBegin
    \/ Inner(Producers)
    \/ \E t \in Threads : PutAccepted(t, "t1")
    \/ TickTimed

SpecQuietRace == InitQueued /\ [][NextQuietRace]_vars /\ FairThreads

\* ----------------------------------------------------------- properties
IsPrefix(a, b) == Len(a) <= Len(b) /\ a = SubSeq(b, 1, Len(a))

Ids(b) == {b[i].id : i \in 1..Len(b)}

Started(w) == wpc[w] # "unborn"

\* The events put on stream s, in put order.
RECURSIVE MsgsOf(_)
MsgsOf(puts) ==
    IF puts = <<>> THEN <<>> ELSE <<Head(puts).msg>> \o MsgsOf(Tail(puts))

EnqueuedOn(s) == MsgsOf(enqueued[s])

\* The events put on Queue object q, in put order.
EnqueuedTo(q) ==
    MsgsOf(SelectSeq(enqueued[q[1]], LAMBDA r : r.queue = q))

\* The event lists put_log_events was given for stream s, in call order.
RECURSIVE ListsOf(_)
ListsOf(subs) ==
    IF subs = <<>> THEN <<>>
    ELSE <<Head(subs).logEvents>> \o ListsOf(Tail(subs))

SubmittedOn(s) == ListsOf(submitted[s])

\* The event lists thread t gave put_log_events, in call order.
SubmittedBy(w) ==
    ListsOf(SelectSeq(submitted[w[1]], LAMBDA r : r.by = w))

Consumers(q) == {w \in Workers : Started(w) /\ my_queue[w] = q}

\* Each list of lists holds exactly the next Len(list) events of evs.
RECURSIVE Segments(_, _)
Segments(lists, evs) ==
    IF lists = <<>> THEN TRUE
    ELSE LET n == Len(Head(lists)) IN
         /\ n <= Len(evs)
         /\ Ids(Head(lists)) = Ids(SubSeq(evs, 1, n))
         /\ Segments(Tail(lists), SubSeq(evs, n + 1, Len(evs)))

Pending(w) ==
    IF wpc[w] = "get" THEN cur_batch[w]
    ELSE IF wpc[w] = "put_log_events" /\ IsEvent(msg[w]) THEN <<msg[w]>>
    ELSE <<>>

\* C2: with the service accepting every call, the batches a worker passes
\* to _submit_batch followed by what it still holds are exactly the events it
\* dequeued, each once and in order; an item that closes a batch is held for
\* the next one, a timeout adds nothing; when the worker ends every dequeued
\* event has been passed.
C2_EveryEventInOneBatch ==
    \A w \in Workers :
        (Started(w) /\ wpc[w] # "crashed") =>
            Flatten(passed[w]) \o Pending(w) = dequeued[w]

\* Witness of C2: a worker ended having passed two non-empty batches and an
\* empty one (a timeout or a sentinel with nothing accumulated).
C2_Witness ==
    \E w \in Workers :
        /\ wpc[w] = "done"
        /\ Len(dequeued[w]) >= 2
        /\ \E i, j, k \in 1..Len(passed[w]) :
              /\ i < j
              /\ passed[w][i] # <<>>
              /\ passed[w][j] # <<>>
              /\ passed[w][k] = <<>>

SubmittedIds == UNION {Ids(Flatten(SubmittedOn(s))) : s \in Streams}

\* C3 as stated: with the service accepting every call, when flush() has
\* returned every event that was enqueued before flush() began has been
\* given to put_log_events.
C3_FlushLosesNothing ==
    (fpc = "returned" /\ ~faulted) => preFlush \subseteq SubmittedIds

\* The worker threads started for stream s.
WorkersOf(s) == {w \in Workers : w[1] = s /\ Started(w)}

\* C10 as stated: a known stream has one queue and at most the one worker
\* that serves it, and every event accepted for the stream was put on that
\* queue, the one flush() drains.
C10_OneQueueOneWorker ==
    \A s \in Streams :
        /\ Cardinality(WorkersOf(s)) <= 1
        /\ \A w \in WorkersOf(s) : my_queue[w] = queues[s]
        /\ \A i \in 1..Len(enqueued[s]) : enqueued[s][i].queue = queues[s]

\* The events put on stream s after its first fatal delivery error.
LaterEvents(s) ==
    IF fatalAt[s] < 0 THEN {}
    ELSE {enqueued[s][i].msg.id : i \in (fatalAt[s] + 1)..Len(enqueued[s])}

\* C9 as stated: a call answered with another error, or accepted with
\* rejected events, is the thread's last call and ends the worker, and no
\* event enqueued to that stream afterwards is given to put_log_events.
C9_FatalErrorEndsStream ==
    /\ \A w \in Workers :
          lastCall[w].outcome \in {"error", "rejectedLogEventsInfo"} =>
              wpc[w] = "crashed"
    /\ \A s \in Streams : LaterEvents(s) \cap Ids(Flatten(SubmittedOn(s))) = {}

\* Every batch a worker accumulated, passed on or submitted.
BatchesOf(w) ==
    {cur_batch[w]} \cup {passed[w][i] : i \in 1..Len(passed[w])}
        \cup {SubmittedBy(w)[i] : i \in 1..Len(SubmittedBy(w))}

\* C4 as stated: no batch given to put_log_events has an accounted size
\* (sum of payload length + 26) above max_batch_size.
C4_BatchWithinMaxSize ==
    \A s \in Streams : \A i \in 1..Len(SubmittedOn(s)) :
        SumSize(SubmittedOn(s)[i]) <= max_batch_size

\* C4 amended: a batch is above max_batch_size only when it is a single
\* event whose own accounted size is above it; every batch of two or more
\* events is within max_batch_size, and cur_batch_size is the accounted size
\* of the open batch.
C4_BatchWithinMaxSizeOrSingle ==
    \A w \in Workers :
        /\ \A b \in BatchesOf(w) :
              SumSize(b) <= max_batch_size \/ Len(b) = 1
        /\ wpc[w] = "get" => cur_batch_size[w] = SumSize(cur_batch[w])

\* Witness of C4: the size trigger closed a batch that had room by count,
\* for an event that fits a batch on its own.
C4_Witness ==
    \E w \in Workers : \E i \in 1..(Len(passed[w]) - 1) :
        /\ passed[w][i] # <<>>
        /\ passed[w][i + 1] # <<>>
        /\ Len(passed[w][i]) < max_batch_count
        /\ size(passed[w][i + 1][1]) <= max_batch_size
        /\ SumSize(passed[w][i]) + size(passed[w][i + 1][1]) > max_batch_size

\* A step in which worker w receives an event while its open batch already
\* holds max_batch_count events.
ReceivesAtMaxCount(w) ==
    /\ wpc[w] = "get"
    /\ cur_batch_msg_count[w] = max_batch_count
    /\ Len(dequeued'[w]) = Len(dequeued[w]) + 1

\* C5: no batch holds more than max_batch_count events, and an event
\* received when the open batch holds max_batch_count events closes that
\* batch (it is passed to _submit_batch without the event) and is the first
\* member of the next one.
C5_BatchWithinMaxCount ==
    /\ [](\A w \in Workers : \A b \in BatchesOf(w) : Len(b) <= max_batch_count)
    /\ [][\A w \in Workers :
            /\ ReceivesAtMaxCount(w) =>
                  /\ passed'[w] = Append(passed[w], cur_batch[w])
                  /\ wpc'[w] = "put_log_events"
                  /\ msg'[w] = dequeued'[w][Len(dequeued'[w])]
            /\ (wpc[w] = "put_log_events" /\ wpc'[w] = "get" /\ IsEvent(msg[w])) =>
                  cur_batch'[w] = <<msg[w]>>]_vars

\* Witness of C5: a batch of max_batch_count events was closed by the count
\* trigger alone and the closing event is in the next batch.
C5_Witness ==
    \E w \in Workers : \E i \in 1..(Len(passed[w]) - 1) :
        /\ Len(passed[w][i]) = max_batch_count
        /\ passed[w][i + 1] # <<>>
        /\ SumSize(passed[w][i]) + size(passed[w][i + 1][1]) <= max_batch_size
        /\ wpc[w] = "done"

\* C6 as stated: after an accepted put_log_events call the stream's stored
\* token is the token that call returned, and the first attempt of the
\* thread's next submission carries it.
C6_TokenStoredAfterSuccess ==
    \A t \in Threads :
        lastCall[t].outcome = "accepted" =>
            /\ sequence_tokens[CallStream(t)] = lastCall[t].token
            /\ (Calling(t) /\ retry[t] = 0) =>
                   kwargs[t].sequenceToken = lastCall[t].token

\* Thread t makes a put_log_events call in this step.
StepCall(t) == Calling(t) /\ (~Calling(t)' \/ retry'[t] # retry[t])

\* C7: a stale-token rejection of attempt k, k below the retry bound, is
\* followed by attempt k+1 for the same sorted batch, carrying the corrected
\* token of that rejection in place of the token attempt k carried.
C7_RetryCarriesCorrectedToken ==
    /\ [](\A t \in Threads :
            (Calling(t) /\ retry[t] > 0) =>
                /\ lastCall[t].outcome = "stale"
                /\ kwargs[t].sequenceToken = lastCall[t].token
                /\ kwargs[t].logEvents = lastCall[t].logEvents)
    /\ [][\A t \in Threads :
            (StepCall(t) /\ lastCall'[t].outcome = "stale"
                /\ retry[t] + 1 < max_retries) =>
                /\ Calling(t)'
                /\ retry'[t] = retry[t] + 1
                /\ kwargs'[t].logEvents = kwargs[t].logEvents
                /\ kwargs'[t].sequenceToken = lastCall'[t].token]_vars

\* Witness of C7: a third attempt is about to be made with the token of
\* the second rejection, which differs from the token the second attempt
\* carried.
C7_Witness ==
    \E t \in Threads :
        /\ Calling(t)
        /\ retry[t] = 2
        /\ lastCall[t].sequenceToken \in Tokens
        /\ lastCall[t].token # lastCall[t].sequenceToken
        /\ kwargs[t].sequenceToken = lastCall[t].token

\* C8: one batch gets at most max_retries put_log_events calls (retry is the
\* index of the attempt in progress or last made); when the last of them is
\* rejected as stale the worker is ended by the error, and a thread ended
\* that way makes no further call.
C8_BoundedRetriesThenFatal ==
    /\ [](\A t \in Threads : retry[t] + 1 <= max_retries)
    /\ [](\A w \in Workers :
            (lastCall[w].outcome = "stale" /\ ~Calling(w)) =>
                (wpc[w] = "crashed" /\ retry[w] + 1 = max_retries))
    /\ [][\A w \in Workers :
            wpc[w] = "crashed" =>
                (wpc'[w] = "crashed" /\ lastCall'[w] = lastCall[w])]_vars

\* Witness of C8: a worker ended after max_retries stale rejections.
C8_Witness ==
    \E w \in Workers :
        /\ wpc[w] = "crashed"
        /\ lastCall[w].outcome = "stale"
        /\ retry[w] + 1 = max_retries

\* The ids of the emit calls that have not returned yet.
InEmit == {pmsg[p].id : p \in {r \in Producers : ppc[r] # "idle"}}

\* The ids of every event some worker took from a queue.
DequeuedIds == UNION {Ids(dequeued[w]) : w \in Workers}

\* C11: in queued mode an emit call that begins when flush() has set
\* shutting_down never puts its event on a queue, so no worker takes it and
\* no put_log_events call carries it; the call ends with the warning (the
\* event is counted as discarded): until it returns it is at the queue
\* creation, the thread start or the shutting_down test, none of which
\* raises, and never at the put or inside _submit_batch.
C11_LateEmitDiscarded ==
    use_queues =>
        /\ late \cap AllEnqueuedIds = {}
        /\ late \cap DequeuedIds = {}
        /\ late \cap SubmittedIds = {}
        /\ late \subseteq (discarded \cup InEmit)
        /\ \A p \in Producers :
              (ppc[p] # "idle" /\ pmsg[p].id \in late) =>
                  ppc[p] \in {"new_queue", "start_thread", "check_shutdown"}

\* Witness of C11: flush() has returned after draining an event, and a
\* later emit call, made for the stream, has returned with its event
\* discarded.
C11_Witness ==
    /\ fpc = "returned"
    /\ SubmittedIds # {}
    /\ late \cap discarded # {}
    /\ InEmit = {}

\* C12 as stated: with remote calls and thread steps taking no time, an
\* event put on a queue while a worker of the queue was running is in a batch
\* passed to _submit_batch no later than send_interval after the put.
C12_PassedWithinSendInterval ==
    \A r \in waiting : r.running => now <= r.at + send_interval

\* The worker threads of stream s that are inside a put_log_events call.
InFlight(s) == {w \in Workers : w[1] = s /\ wpc[w] = "put_log_events"}

\* C13 as stated: for events a put before b on one stream, once the batch
\* holding b has been given to put_log_events the batch holding a has been
\* given to it too, in the same call or an earlier one; and at most one
\* put_log_events call per stream is in progress at a time.
C13_BatchesInEnqueueOrder ==
    \A s \in Streams :
        /\ Cardinality(InFlight(s)) <= 1
        /\ \A j \in 1..Len(enqueued[s]) : \A k \in 1..Len(submitted[s]) :
              enqueued[s][j].msg.id \in Ids(submitted[s][k].logEvents) =>
                  \A i \in 1..(j - 1) : \E h \in 1..k :
                      enqueued[s][i].msg.id \in Ids(submitted[s][h].logEvents)

\* The place of the event with this id in batch b.
PosIn(b, id) == CHOOSE i \in 1..Len(b) : b[i].id = id

\* list holds the events of batch, each once, by ascending timestamp, events
\* of equal timestamp in the order they have in batch.
SortedStable(list, batch) ==
    /\ Len(list) = Len(batch)
    /\ Ids(list) = Ids(batch)
    /\ \A i, j \in 1..Len(list) :
          i < j =>
              /\ list[i].timestamp <= list[j].timestamp
              /\ list[i].timestamp = list[j].timestamp =>
                     PosIn(batch, list[i].id) < PosIn(batch, list[j].id)

\* The non-empty batches worker w passed to _submit_batch.
NonEmptyPassed(w) == SelectSeq(passed[w], LAMBDA b : b # <<>>)

\* C14: the event list of every put_log_events call is the accumulated
\* batch, every event once, in ascending timestamp order, and events with
\* equal timestamps keep the order in which they were enqueued.
C14_SortedStablePermutation ==
    \A w \in Workers :
        /\ Calling(w) => SortedStable(kwargs[w].logEvents, cur_batch[w])
        /\ Len(SubmittedBy(w)) <= Len(NonEmptyPassed(w))
        /\ \A k \in 1..Len(SubmittedBy(w)) :
              SortedStable(SubmittedBy(w)[k], NonEmptyPassed(w)[k])

\* Witness of C14: a batch accumulated with descending timestamps was given
\* to put_log_events in another order than it was accumulated in.
C14_Witness ==
    \E w \in Workers : \E k \in 1..Len(SubmittedBy(w)) :
        /\ Len(NonEmptyPassed(w)[k]) >= 2
        /\ NonEmptyPassed(w)[k][1].timestamp > NonEmptyPassed(w)[k][2].timestamp
        /\ SubmittedBy(w)[k] # NonEmptyPassed(w)[k]

\* What the handler holds for stream s: its queue and the queue's content,
\* its token, and the state of its worker threads.
StreamState(s) ==
    <<queues[s], sequence_tokens[s],
      [q \in {r \in QueueIds : r[1] = s} |-> <<items[q], unfinished[q]>>],
      [w \in {v \in Workers : v[1] = s} |->
          <<wpc[w], my_queue[w], msg[w], cur_batch[w], cur_batch_size[w],
            cur_batch_msg_count[w], cur_batch_deadline[w], kwargs[w],
            retry[w]>>]>>

\* C15: the step in which a worker is ended by a delivery error changes
\* nothing of any other stream (queue, queue content, current batch, token,
\* worker), and a worker is only ever ended by the failure of a call of its
\* own: the workers of the other streams go on taking and submitting events.
C15_FatalErrorLeavesOtherStreams ==
    /\ [](\A w \in Workers :
            wpc[w] = "crashed" =>
                lastCall[w].outcome \in {"error", "rejectedLogEventsInfo",
                                         "stale"})
    /\ [][\A w \in Workers :
            (wpc[w] # "crashed" /\ wpc'[w] = "crashed") =>
                \A s \in Streams \ {w[1]} : StreamState(s)' = StreamState(s)]_vars

\* Witness of C15: the worker of one stream has been ended by an error,
\* and the worker of another stream is giving put_log_events a batch with an
\* event emitted after the events of the failed call.
C15_Witness ==
    \E w, v \in Workers :
        /\ w[1] # v[1]
        /\ wpc[w] = "crashed"
        /\ Calling(v)
        /\ \E i \in Ids(kwargs[v].logEvents) :
              \A j \in Ids(lastCall[w].logEvents) : i > j

\* C16 as stated: under fair scheduling, the service accepting every call
\* and no emit overlapping or following flush(), the first flush() call
\* returns, every worker started before it ends, and a worker ends only
\* after it took the sentinel and submitted all it had taken.
C16_FlushEndsEveryWorker ==
    /\ [](\A w \in Workers :
            wpc[w] = "done" =>
                /\ msg[w] = END
                /\ Ids(dequeued[w]) = Ids(Flatten(SubmittedBy(w))))
    /\ (flushes = 1) ~> (fpc = "returned")
    /\ (flushes = 1) ~> (\A w \in Workers : Started(w) => wpc[w] = "done")

\* C17 as stated: under fair scheduling flush() returns also when a worker
\* was ended by a delivery error, before flush() was called or in the
\* submission made on the sentinel.
C17_FlushReturnsAfterFatalError ==
    (flushes = 1) ~> (fpc = "returned")

\* The worker threads that were started on queue q have all ended.
Abandoned(q) ==
    /\ Consumers(q) # {}
    /\ \A w \in Consumers(q) : wpc[w] \in {"done", "crashed"}

\* C18 as stated: no event is in a queue behind the sentinel, and no event
\* stays in a queue whose worker has ended.
C18_NoEventBehindSentinel ==
    \A q \in QueueIds : \A j \in 1..Len(items[q]) :
        IsEvent(items[q][j]) =>
            /\ \A i \in 1..(j - 1) : items[q][i] # END
            /\ ~Abandoned(q)

\* An event is in two put_log_events calls, or twice in one.
SubmittedTwice ==
    \E s \in Streams : \E h, k \in 1..Len(submitted[s]) :
        \E i \in 1..Len(submitted[s][h].logEvents) :
            \E j \in 1..Len(submitted[s][k].logEvents) :
                /\ <<h, i>> # <<k, j>>
                /\ submitted[s][h].logEvents[i].id = submitted[s][k].logEvents[j].id

\* C19 as stated: with a stream known and the service accepting every
\* call, a second flush() call made after the first returned returns too,
\* and no event is submitted a second time.
C19_SecondFlushReturns ==
    /\ [](~SubmittedTwice)
    /\ (flushes = 2 /\ QueueValues # {}) ~> (flushes = 2 /\ fpc = "returned")

\* A step in which worker w passes an empty batch to _submit_batch.
PassesEmpty(w) == passed'[w] = Append(passed[w], <<>>)

\* C20: no put_log_events call has an empty event list; when a trigger
\* fires on an empty current batch no call is made, and the worker goes on
\* with its next batch or, on the sentinel, ends normally.
C20_NoEmptyCall ==
    /\ [](\A t \in Threads :
            /\ Calling(t) => kwargs[t].logEvents # <<>>
            /\ lastCall[t].outcome # "none" => lastCall[t].logEvents # <<>>)
    /\ [](\A s \in Streams : \A k \in 1..Len(submitted[s]) :
            submitted[s][k].logEvents # <<>>)
    /\ [][\A w \in Workers :
            PassesEmpty(w) =>
                /\ wpc'[w] = IF msg'[w] = END THEN "done" ELSE "get"
                /\ submitted' = submitted
                /\ lastCall' = lastCall]_vars

\* Witness of C20: a worker ended normally after its first event, alone
\* above the size limit, closed the empty first batch, and after it took the
\* sentinel with nothing accumulated; its calls were for the event.
C20_Witness ==
    \E w \in Workers :
        /\ wpc[w] = "done"
        /\ Len(passed[w]) >= 3
        /\ passed[w][1] = <<>>
        /\ dequeued[w] # <<>>
        /\ size(dequeued[w][1]) > max_batch_size
        /\ passed[w][Len(passed[w])] = <<>>
        /\ SubmittedBy(w) # <<>>
====
